---- MODULE Spec2Model ----
(***************************************************************************)
(* Model of compile_fastqc_data.py: the FASTQC report parser               *)
(* (fastqc_report, fastqc_module) and the collation engine                 *)
(* (fastqc_collation).                                                     *)
(*                                                                         *)
(* Three specifications share the variables of the module:                 *)
(*   Spec       the collation engine: construction over an input tree and  *)
(*              process() over an output directory, step by step;          *)
(*   SpecParse  fastqc_report._process_fastqc_report, line by line, over   *)
(*              every bounded sequence of lines;                           *)
(*   SpecStub   fastqc_report._process_basic_stats' filestub, over bounded *)
(*              file names.                                                *)
(*                                                                         *)
(* Representation.  A text line is a record [mark, f]: mark is what the    *)
(* line starts with (see Marks) and f is the tab-split of the rest of the  *)
(* line.  Strings are TLA+ strings; where the code looks inside a string   *)
(* (sorting paths, the .fastq regular expression) the string is taken as   *)
(* its sequence of characters.                                             *)
(***************************************************************************)
EXTENDS Integers, Sequences, FiniteSets, TLC

VARIABLES
    \* ---- the file system
    tree,         \* input tree: [root, name] of each file -> the file (see Content)
    dirExists,    \* whether out_dir exists
    files,        \* out_dir content: output path -> NoFile or sequence of lines
    \* ---- fastqc_collation object and the run of process()
    sep,          \* self.sep
    fastqcfiles,  \* self.fastqcfiles
    modules,      \* self.modules
    pc,           \* position of the program
    err,          \* the exception that ended the program, or "none"
    req,          \* process(): the local `modules` after lines 74-78
    mi,           \* process(): index into req of the running module loop
    fi,           \* process(): index into fastqcfiles of the file loop
    qc,           \* process(): the local `qc` (a fastqc_report)
    \* ---- history (not program state)
    runs,         \* number of process() calls started
    parses,       \* number of fastqc_report constructions in this process()
    atEntry,      \* [dir, files] as they were when this process() was called
    prevOut,      \* files as the previous completed process() left them
    \* ---- SpecParse: fastqc_report._process_fastqc_report
    p_input,      \* f.readlines()
    p_pos,        \* index of the next line to read
    p_st,         \* the loop's locals: module, status, cols, lines, modules, err
    p_src,        \* history: the index in p_input of each line of p_st.lines
    p_from,       \* history: per stored module, where its rows were read
    \* ---- SpecStub: fastqc_report._process_basic_stats
    s_filename,   \* stats['Filename'], as characters
    s_filestub,   \* self.filestub, as characters
    s_pc

vars == <<tree, dirExists, files, sep, fastqcfiles, modules, pc, err, req, mi,
          fi, qc, runs, parses, atEntry, prevOut,
          p_input, p_pos, p_st, p_src, p_from, s_filename, s_filestub, s_pc>>

collVars == <<tree, dirExists, files, sep, fastqcfiles, modules, pc, err, req,
              mi, fi, qc, runs, parses, atEntry, prevOut>>
parseVars == <<p_input, p_pos, p_st, p_src, p_from>>
stubVars == <<s_filename, s_filestub, s_pc>>

-----------------------------------------------------------------------------
(* Bounds of the model.                                                    *)

\* most report files (named fastqc_filename) in the input tree
MaxFiles == 3
\* longest list of modules passed to process()
MaxReq == 2
\* most calls of process() on one collation object
MaxRuns == 2
\* most lines of a report read by SpecParse
MaxLines == 4
\* most pieces a file name of SpecStub is made of
MaxPieces == 3

-----------------------------------------------------------------------------
(* Strings as characters.                                                  *)

\* The characters that occur in paths, in code point order (Python compares
\* strings by code point).
AsciiOrder ==
    <<".", "/", "B", "_", "a", "b", "c", "d", "f", "m", "q", "r", "s", "t",
      "u", "x", "y">>

Ord(c) == CHOOSE i \in 1..Len(AsciiOrder) : AsciiOrder[i] = c

\* a < b for two strings given as characters: the first differing character
\* decides, a proper prefix is smaller.
RECURSIVE LexLess(_, _)
LexLess(a, b) ==
    IF b = <<>> THEN FALSE
    ELSE IF a = <<>> THEN TRUE
    ELSE IF Head(a) = Head(b) THEN LexLess(Tail(a), Tail(b))
    ELSE Ord(Head(a)) < Ord(Head(b))

-----------------------------------------------------------------------------
(* fastqc_report._process_basic_stats: the file stub.                      *)

\* the literal \.fastq of the pattern
DotFastq == <<".", "f", "a", "s", "t", "q">>

\* the pattern's tail \.fastq.* matches s from position k on
MatchesAt(s, k) ==
    /\ k + Len(DotFastq) - 1 <= Len(s)
    /\ SubSeq(s, k, k + Len(DotFastq) - 1) = DotFastq

\* (.*) is greedy: it first takes everything, then gives characters back one
\* at a time until \.fastq follows.  n is the length tried for group 1; the
\* result is the length of group 1, or -1 when the pattern does not match.
RECURSIVE GreedyGroup(_, _)
GreedyGroup(s, n) ==
    IF n < 0 THEN -1
    ELSE IF MatchesAt(s, n + 1) THEN n
    ELSE GreedyGroup(s, n - 1)

\* a lazy group (.*?): the shortest prefix after which \.fastq follows
RECURSIVE LazyGroup(_, _)
LazyGroup(s, n) ==
    IF n > Len(s) THEN -1
    ELSE IF MatchesAt(s, n + 1) THEN n
    ELSE LazyGroup(s, n + 1)

FilestubLazy(filename) ==
    LET n == LazyGroup(filename, 0)
    IN  IF n < 0 THEN filename ELSE SubSeq(filename, 1, n)

\* re.sub('(.*)\.fastq.*', '\\1', filename): the match, when there is one,
\* starts at the first character and runs to the end of the name, and is
\* replaced by group 1; a name the pattern does not match is returned as is.
Filestub(filename) ==
    LET n == GreedyGroup(filename, Len(filename))
    IN  IF n < 0 THEN filename ELSE SubSeq(filename, 1, n)

\* The pieces the file names of SpecStub are made of.
Pieces ==
    { <<"s">>, DotFastq, <<".", "g", "z">>, <<"c">>, <<".", "f", "a", "s", "t">> }

RECURSIVE Concat(_)
Concat(ps) == IF ps = <<>> THEN <<>> ELSE Head(ps) \o Concat(Tail(ps))

PieceSeqs == UNION { [1..n -> Pieces] : n \in 0..MaxPieces }

Filenames == { Concat(ps) : ps \in PieceSeqs }

-----------------------------------------------------------------------------
(* Lines of a report.                                                      *)

\* What a stripped line starts with, as the tests of lines 160-166 see it:
\*   "open"  starts with >> and not with >>END_MODULE;  f = line[2:].split('\t')
\*   "hash"  starts with #;                             f = line[1:].split('\t')
\*   "end"   is exactly >>END_MODULE;                   f = <<>>
\*   "endx"  starts with >>END_MODULE and goes on;      f = line.split('\t')
\*   "data"  any other line (the empty line included);  f = line.split('\t')
Marks == {"open", "hash", "end", "endx", "data"}

Line(mark, f) == [mark |-> mark, f |-> f]

\* str.strip() seen on the fields of a line: the tabs (and blanks) at the end
\* of the line go, and with them the empty fields they delimit.
RECURSIVE RStrip(_)
RStrip(f) ==
    IF Len(f) > 1 /\ f[Len(f)] = "" THEN RStrip(SubSeq(f, 1, Len(f) - 1))
    ELSE f

\* ... and the same at the start of a line that starts with no marker.
RECURSIVE LStrip(_)
LStrip(f) ==
    IF Len(f) > 1 /\ Head(f) = "" THEN LStrip(Tail(f)) ELSE f

\* the fields of line.strip() (for a marked line, of what follows the marker)
Strip(line) ==
    IF line.mark = "end" THEN <<>>
    ELSE IF line.mark = "data" THEN LStrip(RStrip(line.f))
    ELSE RStrip(line.f)

-----------------------------------------------------------------------------
(* fastqc_module.                                                          *)

BasicStatistics == "Basic Statistics"

\* a local variable of the parser that has not been assigned yet
Unbound == "<unbound>"
UnboundCols == <<>>

\* the cell pandas fills a short row with
NoneCell == "<None>"

RECURSIVE MaxWidth(_)
MaxWidth(lines) ==
    IF lines = <<>> THEN 0
    ELSE LET w == Len(Head(lines))
             r == MaxWidth(Tail(lines))
         IN  IF w > r THEN w ELSE r

Pad(row, n) == [i \in 1..n |-> IF i <= Len(row) THEN row[i] ELSE NoneCell]

\* array(lines)[:,1] and [:,0] need a two-dimensional array: at least one
\* row, all rows of one width, and that width at least 2.
SeriesOk(lines) ==
    /\ lines # <<>>
    /\ \A i \in 1..Len(lines) : Len(lines[i]) = Len(lines[1])
    /\ Len(lines[1]) >= 2

\* pd.DataFrame(lines, columns=cols): the widest row must have as many
\* fields as there are columns; shorter rows are filled up.
FrameOk(cols, lines) == lines = <<>> \/ MaxWidth(lines) = Len(cols)

\* fastqc_module.__init__ when it raises nothing
fastqc_module(module, status, cols, lines) ==
    [module |-> module, status |-> status, cols |-> cols,
     data |-> IF module = BasicStatistics
              THEN [kind |-> "Series",
                    columns |-> [i \in 1..Len(lines) |-> lines[i][1]],
                    rows |-> << [i \in 1..Len(lines) |-> lines[i][2]] >>]
              ELSE [kind |-> "DataFrame",
                    columns |-> cols,
                    rows |-> [i \in 1..Len(lines) |-> Pad(lines[i], Len(cols))]]]

ModuleOk(module, cols, lines) ==
    IF module = BasicStatistics THEN SeriesOk(lines) ELSE FrameOk(cols, lines)

-----------------------------------------------------------------------------
(* fastqc_report._process_fastqc_report.                                   *)

\* The locals of the loop.  modules is the dict self.modules, order its keys
\* in insertion order.
ParseStart ==
    [module |-> Unbound, status |-> Unbound, cols |-> UnboundCols,
     lines |-> <<>>, modules |-> <<>>, order |-> <<>>, err |-> "none"]

InSeq(x, s) == \E i \in 1..Len(s) : s[i] = x

\* self.modules[module] = mod
DictSet(st, name, mod) ==
    [st EXCEPT !.modules = (name :> mod) @@ st.modules,
               !.order = IF InSeq(name, st.order) THEN st.order
                         ELSE Append(st.order, name)]

\* lines 160-162
OnOpen(st, f) ==
    IF Len(f) # 2 THEN [st EXCEPT !.err = "ValueError"]
    ELSE [st EXCEPT !.module = f[1], !.status = f[2]]

\* lines 163-165
OnHash(st, f) == [st EXCEPT !.cols = f]

\* lines 166-169
OnEnd(st) ==
    IF st.module = Unbound \/ st.cols = UnboundCols
    THEN [st EXCEPT !.err = "UnboundLocalError"]
    ELSE IF ~ModuleOk(st.module, st.cols, st.lines)
    THEN [st EXCEPT !.err = IF st.module = BasicStatistics THEN "IndexError"
                             ELSE "ValueError"]
    ELSE [DictSet(st, st.module,
                  fastqc_module(st.module, st.status, st.cols, st.lines))
          EXCEPT !.lines = <<>>]

\* lines 170-171
OnOther(st, f) == [st EXCEPT !.lines = Append(st.lines, f)]

\* the body of the loop, lines 159-171
ParseLine(st, line) ==
    LET f == Strip(line)
    IN  CASE line.mark = "open" -> OnOpen(st, f)
          [] line.mark = "hash" -> OnHash(st, f)
          [] line.mark = "end" -> OnEnd(st)
          [] OTHER -> OnOther(st, f)

\* the whole loop over the lines of a file; an exception ends it
RECURSIVE ParseFrom(_, _)
ParseFrom(st, lines) ==
    IF lines = <<>> \/ st.err # "none" THEN st
    ELSE ParseFrom(ParseLine(st, Head(lines)), Tail(lines))

ParseLines(lines) == ParseFrom(ParseStart, lines)

-----------------------------------------------------------------------------
(* The strings whose characters the code looks at, spelled out.            *)

Spelling ==
    ("r/B" :> <<"r", "/", "B">>) @@
    ("r/a" :> <<"r", "/", "a">>) @@
    ("r/a/b" :> <<"r", "/", "a", "/", "b">>) @@
    ("fastqc_data.txt" :> <<"f", "a", "s", "t", "q", "c", "_", "d", "a", "t", "a", ".", "t", "x", "t">>) @@
    ("summary.txt" :> <<"s", "u", "m", "m", "a", "r", "y", ".", "t", "x", "t">>) @@
    ("r/B/fastqc_data.txt" :> <<"r", "/", "B", "/", "f", "a", "s", "t", "q", "c", "_", "d", "a", "t", "a", ".", "t", "x", "t">>) @@
    ("r/a/fastqc_data.txt" :> <<"r", "/", "a", "/", "f", "a", "s", "t", "q", "c", "_", "d", "a", "t", "a", ".", "t", "x", "t">>) @@
    ("r/a/b/fastqc_data.txt" :> <<"r", "/", "a", "/", "b", "/", "f", "a", "s", "t", "q", "c", "_", "d", "a", "t", "a", ".", "t", "x", "t">>) @@
    ("s1.fastq.gz" :> <<"s", "1", ".", "f", "a", "s", "t", "q", ".", "g", "z">>) @@
    ("s1" :> <<"s", "1">>) @@
    ("s3.fastq.t.fastq.gz" :> <<"s", "3", ".", "f", "a", "s", "t", "q", ".", "t", ".", "f", "a", "s", "t", "q", ".", "g", "z">>) @@
    ("s3.fastq.t" :> <<"s", "3", ".", "f", "a", "s", "t", "q", ".", "t">>) @@
    ("s3" :> <<"s", "3">>) @@
    ("s4.bam" :> <<"s", "4", ".", "b", "a", "m">>)

CharsOf(s) == Spelling[s]

StrOf(cs) ==
    IF \E s \in DOMAIN Spelling : Spelling[s] = cs
    THEN CHOOSE s \in DOMAIN Spelling : Spelling[s] = cs
    ELSE "?"

\* os.path.join(root, name)
PathJoin(root, name) == StrOf(CharsOf(root) \o <<"/">> \o CharsOf(name))

\* the strings int() accepts, among those the reports of the model hold
IntLiterals == {"0", "35", "50", "1000", "2000"}

-----------------------------------------------------------------------------
(* fastqc_report.                                                          *)

HasKey(data, key) == InSeq(key, data.columns)

\* stats[key] on the Series of Basic Statistics
SeriesGet(data, key) ==
    data.rows[1][CHOOSE i \in 1..Len(data.columns) : data.columns[i] = key]

IntKeys == <<"Total Sequences", "Filtered Sequences", "Sequence length", "%GC">>

NoReport(path, e) ==
    [fastqcpath |-> path, modules |-> <<>>, order |-> <<>>,
     filename |-> "", filestub |-> "", err |-> e]

\* fastqc_report._process_basic_stats, on the parsed modules
process_basic_stats(path, st) ==
    IF BasicStatistics \notin DOMAIN st.modules THEN NoReport(path, "KeyError")
    ELSE LET stats == st.modules[BasicStatistics].data
         IN  IF \E i \in 1..Len(IntKeys) : ~HasKey(stats, IntKeys[i])
             THEN NoReport(path, "KeyError")
             ELSE IF \E i \in 1..Len(IntKeys) :
                        SeriesGet(stats, IntKeys[i]) \notin IntLiterals
             THEN NoReport(path, "ValueError")
             ELSE IF ~HasKey(stats, "Filename") THEN NoReport(path, "KeyError")
             ELSE LET filename == SeriesGet(stats, "Filename")
                  IN  [fastqcpath |-> path, modules |-> st.modules,
                       order |-> st.order, filename |-> filename,
                       filestub |-> StrOf(Filestub(CharsOf(filename))),
                       err |-> "none"]

\* fastqc_report.__init__ on the file at `path` of the tree `t`, whose lines
\* are `raw`
fastqc_report(path, exists, raw) ==
    IF ~exists THEN NoReport(path, "ValueError")
    ELSE LET st == ParseLines(raw)
         IN  IF st.err # "none" THEN NoReport(path, st.err)
             ELSE process_basic_stats(path, st)

-----------------------------------------------------------------------------
(* The reports of the model, as the lines of their files.                  *)

GCContent == "Per sequence GC content"
KmerContent == "Kmer Content"

BasicStatsLines(filename, total) ==
    << Line("open", <<BasicStatistics, "pass">>),
       Line("hash", <<"Measure", "Value">>),
       Line("data", <<"Filename", filename>>),
       Line("data", <<"Total Sequences", total>>),
       Line("data", <<"Filtered Sequences", "0">>),
       Line("data", <<"Sequence length", "50">>),
       Line("data", <<"%GC", "35">>),
       Line("end", <<>>) >>

VersionLine == Line("hash", <<"#FastQC", "0.10.1">>)

\* Basic Statistics and a GC table of two rows
ReportA ==
    <<VersionLine>> \o BasicStatsLines("s1.fastq.gz", "1000") \o
    << Line("open", <<GCContent, "pass">>),
       Line("hash", <<"GC Content", "Count">>),
       Line("data", <<"0", "1.0">>),
       Line("data", <<"1", "2.0">>),
       Line("end", <<>>) >>

\* Basic Statistics, a GC table of one row and a Kmer table; .fastq occurs
\* twice in the file name
ReportB ==
    <<VersionLine>> \o BasicStatsLines("s3.fastq.t.fastq.gz", "2000") \o
    << Line("open", <<GCContent, "warn">>),
       Line("hash", <<"GC Content", "Count">>),
       Line("data", <<"2", "3.0">>),
       Line("end", <<>>),
       Line("open", <<KmerContent, "fail">>),
       Line("hash", <<"Sequence", "Count">>),
       Line("data", <<"AAAAA", "7">>),
       Line("end", <<>>) >>

\* a GC table of no rows before Basic Statistics; no .fastq in the file name
ReportC ==
    << VersionLine,
       Line("open", <<GCContent, "fail">>),
       Line("hash", <<"GC Content", "Count">>),
       Line("end", <<>>) >> \o
    BasicStatsLines("s4.bam", "1000")

\* a report without Basic Statistics: fastqc_report() raises on it
ReportD ==
    << VersionLine,
       Line("open", <<GCContent, "pass">>),
       Line("hash", <<"GC Content", "Count">>),
       Line("data", <<"5", "6.0">>),
       Line("end", <<>>) >>

\* the files of the model by name, and what each holds
Reports == {"A", "B", "C", "D"}

Content(file) ==
    CASE file = "A" -> ReportA
      [] file = "B" -> ReportB
      [] file = "C" -> ReportC
      [] file = "D" -> ReportD
      [] OTHER -> <<>>

\* the module names process() is called with
ModuleNames == {BasicStatistics, GCContent, KmerContent}

-----------------------------------------------------------------------------
(* The file system.                                                        *)

\* fastqc_filename, the default of line 39
FastqcFilename == "fastqc_data.txt"

\* the directories under project_root that may hold a report
ReportDirs == {"r/B", "r/a", "r/a/b"}

\* a file of the tree that is no report
OtherFile == [root |-> "r/a", name |-> "summary.txt"]

Entry(root, name) == [root |-> root, name |-> name]

\* os.walk is top-down: the files of a directory come before those of the
\* directories below it.
Above(d1, d2) == d1 = "r/a" /\ d2 = "r/a/b"

\* the orders os.walk may list the files of tree t in
Walks(t) ==
    LET E == DOMAIN t
        n == Cardinality(E)
    IN  { w \in [1..n -> E] :
            /\ \A i, j \in 1..n : i # j => w[i] # w[j]
            /\ \A i, j \in 1..n : Above(w[i].root, w[j].root) => i < j }

\* every file of the walk taken for a report, whatever its name
RECURSIVE CollectAll(_, _)
CollectAll(w, fastqc_filename) ==
    IF w = <<>> THEN <<>>
    ELSE <<PathJoin(Head(w).root, fastqc_filename)>>
         \o CollectAll(Tail(w), fastqc_filename)

\* lines 49-54: the paths appended to self.fastqcfiles over the walk w
RECURSIVE Collect(_, _)
Collect(w, fastqc_filename) ==
    IF w = <<>> THEN <<>>
    ELSE IF Head(w).name = fastqc_filename
         THEN <<PathJoin(Head(w).root, fastqc_filename)>>
              \o Collect(Tail(w), fastqc_filename)
         ELSE Collect(Tail(w), fastqc_filename)

PathLess(p, q) == LexLess(CharsOf(p), CharsOf(q))

\* list.sort(): insertion of each element into the sorted rest
RECURSIVE Insert(_, _)
Insert(x, s) ==
    IF s = <<>> THEN <<x>>
    ELSE IF PathLess(Head(s), x) THEN <<Head(s)>> \o Insert(x, Tail(s))
    ELSE <<x>> \o s

RECURSIVE SortPaths(_)
SortPaths(s) == IF s = <<>> THEN <<>> ELSE Insert(Head(s), SortPaths(Tail(s)))

\* the list is left in the order of the walk
NoSort(s) == s

\* self.fastqcfiles.sort(), line 55
Sorted(s) == SortPaths(s)

\* is `path` a file of t, and its lines
IsFile(t, path) ==
    \E e \in DOMAIN t : PathJoin(e.root, e.name) = path

FileAt(t, path) == t[CHOOSE e \in DOMAIN t : PathJoin(e.root, e.name) = path]

\* fastqc_report() of each file of the model: what it makes of a file
\* depends on the lines of the file alone
ReportOfFile ==
    ("A" :> fastqc_report("", TRUE, Content("A"))) @@
    ("B" :> fastqc_report("", TRUE, Content("B"))) @@
    ("C" :> fastqc_report("", TRUE, Content("C"))) @@
    ("D" :> fastqc_report("", TRUE, Content("D"))) @@
    ("other" :> fastqc_report("", TRUE, Content("other")))

\* fastqc_report(path) over the tree t
ReportOf(t, path) ==
    IF IsFile(t, path)
    THEN [ReportOfFile[FileAt(t, path)] EXCEPT !.fastqcpath = path]
    ELSE fastqc_report(path, FALSE, <<>>)

\* out_dir: the suffixes and the paths of the output files
Suffixes == {".csv", ".txt"}

\* lines 70-72
Suffix(s) == IF s # "," THEN ".txt" ELSE ".csv"

\* os.path.join(self.out_dir, module + '_fastqc_collation' + suffix)
OutPath(module, suffix) == <<module, suffix>>

OutPaths == { OutPath(m, x) : m \in ModuleNames, x \in Suffixes }

NoFile == [exists |-> FALSE, lines |-> <<>>]
File(lines) == [exists |-> TRUE, lines |-> lines]

\* what a file left in out_dir by something else holds
Stale == File(<< <<"stale">> >>)

-----------------------------------------------------------------------------
(* fastqc_collation._process_mod.                                          *)

\* data[key] = value on a Series or a DataFrame: a new label is added at the
\* end, an existing one is overwritten where it is
SetItem(data, key, value) ==
    IF HasKey(data, key)
    THEN LET i == CHOOSE k \in 1..Len(data.columns) : data.columns[k] = key
         IN  [data EXCEPT !.rows = [r \in 1..Len(data.rows) |->
                                        [data.rows[r] EXCEPT ![i] = value]]]
    ELSE [data EXCEPT !.columns = Append(data.columns, key),
                      !.rows = [r \in 1..Len(data.rows) |->
                                    Append(data.rows[r], value)]]

\* the two fields, each with the other's value
AnnotatedSwapped(report, module, filepath) ==
    SetItem(SetItem(report.modules[module].data, "Filestub", filepath),
            "Filepath", report.filestub)

\* lines 107-109: the module's data with the two fields of the report
Annotated(report, module, filepath) ==
    SetItem(SetItem(report.modules[module].data, "Filestub", report.filestub),
            "Filepath", filepath)

\* to_csv writes a missing cell as the empty string
CsvRow(row) == [i \in 1..Len(row) |-> IF row[i] = NoneCell THEN "" ELSE row[i]]

\* the lines written when the header goes out whatever the mode
WrittenWithHeader(module, data, mode) ==
    IF module = BasicStatistics
    THEN <<data.columns>> \o <<data.rows[1]>>
    ELSE <<data.columns>> \o [r \in 1..Len(data.rows) |-> CsvRow(data.rows[r])]

\* lines 111-126: the lines written to the output file, a line being the
\* sequence of fields that self.sep joins
Written(module, data, mode) ==
    IF module = BasicStatistics
    THEN (IF mode = "w" THEN <<data.columns>> ELSE <<>>) \o <<data.rows[1]>>
    ELSE (IF mode = "w" THEN <<data.columns>> ELSE <<>>)
         \o [r \in 1..Len(data.rows) |-> CsvRow(data.rows[r])]

\* the lines written go to the start of the file, before what it holds
WriteFront(fs, out, mode, lines) ==
    [fs EXCEPT ![out] = File(lines \o (IF mode = "w" THEN <<>>
                                       ELSE fs[out].lines))]

\* open(out, mode) and the write: 'w' starts the file anew, 'a' adds to it
WriteFile(fs, out, mode, lines) ==
    [fs EXCEPT ![out] = File((IF mode = "w" THEN <<>> ELSE fs[out].lines)
                             \o lines)]

\* every write starts the file anew
ModeWrite(fs, out) == "w"

\* lines 91-95: append when the file exists
ModeFor(fs, out) == IF fs[out].exists THEN "a" ELSE "w"

\* every file of the output directory is removed
RemoveAllOld(fs, out) == [o \in DOMAIN fs |-> NoFile]

\* the old file is left where it is
KeepOld(fs, out) == fs

\* lines 84-85: remove the old file if present
RemoveOld(fs, out) == IF fs[out].exists THEN [fs EXCEPT ![out] = NoFile] ELSE fs

\* the module is looked up in the report at hand alone, not in self.modules
ProcessModErrorOfReport(selfModules, report, module) ==
    IF module \notin DOMAIN report.modules THEN "KeyError" ELSE "none"

\* lines 102-109: the exception _process_mod raises, or "none"
ProcessModError(selfModules, report, module) ==
    IF ~InSeq(module, selfModules) THEN "KeyError: Module not found."
    ELSE IF module \notin DOMAIN report.modules THEN "KeyError"
    ELSE "none"

-----------------------------------------------------------------------------
(* The collation engine: construction and process().                      *)

NoQc == NoReport("", "none")

\* the values of process()'s parameter `modules`
Args ==
    {[kind |-> "None", ms |-> <<>>]}
    \cup {[kind |-> "str", ms |-> <<m>>] : m \in ModuleNames}
    \cup {[kind |-> "list", ms |-> ms] :
            ms \in UNION {[1..n -> ModuleNames] : n \in 0..MaxReq}}

\* lines 74-78
Requested(selfModules, arg) ==
    IF arg.kind = "None" THEN selfModules ELSE arg.ms

ReportEntries(S) == { Entry(d, FastqcFilename) : d \in S }

Trees ==
    UNION { { [e \in ReportEntries(S) \cup {OtherFile} |->
                  IF e = OtherFile THEN "other" ELSE c[e.root]] :
              c \in [S -> Reports] } :
            S \in {T \in SUBSET ReportDirs : Cardinality(T) <= MaxFiles} }

OutDirs ==
    { [dir |-> FALSE, files |-> [o \in OutPaths |-> NoFile]],
      [dir |-> TRUE, files |-> [o \in OutPaths |-> NoFile]],
      [dir |-> TRUE, files |-> [o \in OutPaths |-> Stale]] }

ParseIdle ==
    /\ p_input = <<>>
    /\ p_pos = 0
    /\ p_st = ParseStart
    /\ p_src = <<>>
    /\ p_from = <<>>

StubIdle ==
    /\ s_filename = <<>>
    /\ s_filestub = <<>>
    /\ s_pc = "idle"

CollIdle ==
    /\ tree = <<>>
    /\ dirExists = FALSE
    /\ files = <<>>
    /\ sep = ","
    /\ fastqcfiles = <<>>
    /\ modules = <<>>
    /\ pc = "idle"
    /\ err = "none"
    /\ req = <<>>
    /\ mi = 0
    /\ fi = 0
    /\ qc = NoQc
    /\ runs = 0
    /\ parses = 0
    /\ atEntry = <<>>
    /\ prevOut = <<>>

Init ==
    /\ tree \in Trees
    /\ \E o \in OutDirs : dirExists = o.dir /\ files = o.files
    /\ sep \in {",", "\t"}
    /\ fastqcfiles = <<>>
    /\ modules = <<>>
    /\ pc = "new"
    /\ err = "none"
    /\ req = <<>>
    /\ mi = 0
    /\ fi = 0
    /\ qc = NoQc
    /\ runs = 0
    /\ parses = 0
    /\ atEntry = [dir |-> dirExists, files |-> files]
    /\ prevOut = files
    /\ ParseIdle
    /\ StubIdle

\* fastqc_collation.__init__ (lines 38-57) when self.fastqcfiles[0] and the
\* parse of the first report raise nothing
Construct ==
    /\ pc = "new"
    /\ \E w \in Walks(tree) :
         LET found == Sorted(Collect(w, FastqcFilename))
             first == ReportOf(tree, found[1])
         IN  /\ found # <<>>
             /\ first.err = "none"
             /\ fastqcfiles' = found
             /\ modules' = first.order
             /\ pc' = "ready"
    /\ UNCHANGED <<tree, dirExists, files, sep, err, req, mi, fi, qc, runs,
                   parses, atEntry, prevOut>>
    /\ UNCHANGED <<parseVars, stubVars>>

\* fastqc_collation.__init__ when line 57 raises: IndexError on an empty
\* list, or the exception of fastqc_report()
ConstructRaises ==
    /\ pc = "new"
    /\ \E w \in Walks(tree) :
         LET found == Sorted(Collect(w, FastqcFilename))
         IN  /\ IF found = <<>> THEN TRUE
                ELSE ReportOf(tree, found[1]).err # "none"
             /\ fastqcfiles' = found
             /\ err' = IF found = <<>> THEN "IndexError"
                       ELSE ReportOf(tree, found[1]).err
    /\ pc' = "error"
    /\ UNCHANGED <<tree, dirExists, files, sep, modules, req, mi, fi, qc, runs,
                   parses, atEntry, prevOut>>
    /\ UNCHANGED <<parseVars, stubVars>>

\* process(), lines 68-78: the output directory is made, the modules are
\* settled
Enter(arg) ==
    /\ dirExists' = TRUE
    /\ req' = Requested(modules, arg)
    /\ mi' = 1
    /\ fi' = 1
    /\ pc' = IF Requested(modules, arg) = <<>> THEN "files" ELSE "remove"
    /\ runs' = runs + 1
    /\ parses' = 0
    /\ atEntry' = [dir |-> dirExists, files |-> files]
    /\ UNCHANGED <<tree, files, sep, fastqcfiles, modules, err, qc, prevOut>>
    /\ UNCHANGED <<parseVars, stubVars>>

\* the first call of process()
Process ==
    /\ pc = "ready"
    /\ \E arg \in Args : Enter(arg)

\* process() called again with the modules of the call before
ProcessAgain ==
    /\ pc = "done"
    /\ runs < MaxRuns
    /\ Enter([kind |-> "list", ms |-> req])

\* lines 80-85, one module of the loop
RemoveStep ==
    /\ pc = "remove"
    /\ files' = RemoveOld(files, OutPath(req[mi], Suffix(sep)))
    /\ IF mi < Len(req)
       THEN mi' = mi + 1 /\ pc' = pc
       ELSE mi' = 1 /\ pc' = "files"
    /\ UNCHANGED <<tree, dirExists, sep, fastqcfiles, modules, err, req, fi, qc,
                   runs, parses, atEntry, prevOut>>
    /\ UNCHANGED <<parseVars, stubVars>>

\* line 88: the next file is parsed
NextFile ==
    /\ pc = "files"
    /\ fi <= Len(fastqcfiles)
    /\ LET report == ReportOf(tree, fastqcfiles[fi])
       IN  /\ qc' = report
           /\ IF report.err # "none"
              THEN err' = report.err /\ pc' = "error" /\ UNCHANGED <<fi, mi>>
              ELSE IF req = <<>>
              THEN fi' = fi + 1 /\ UNCHANGED <<err, pc, mi>>
              ELSE pc' = "mods" /\ mi' = 1 /\ UNCHANGED <<err, fi>>
    /\ parses' = parses + 1
    /\ UNCHANGED <<tree, dirExists, files, sep, fastqcfiles, modules, req, runs,
                   atEntry, prevOut>>
    /\ UNCHANGED <<parseVars, stubVars>>

\* the report is parsed again for every module of the request
ProcessModReparsing ==
    /\ pc = "mods"
    /\ LET module == req[mi]
           out == OutPath(module, Suffix(sep))
           mode == ModeFor(files, out)
           again == ReportOf(tree, fastqcfiles[fi])
       IN  /\ ProcessModError(modules, again, module) = "none"
           /\ LET data == Annotated(again, module, fastqcfiles[fi])
              IN  /\ qc' = [again EXCEPT !.modules[module].data = data]
                  /\ files' = WriteFile(files, out, mode,
                                        Written(module, data, mode))
    /\ parses' = parses + 1
    /\ IF mi < Len(req)
       THEN mi' = mi + 1 /\ UNCHANGED <<fi, pc>>
       ELSE mi' = 1 /\ fi' = fi + 1 /\ pc' = "files"
    /\ UNCHANGED <<tree, dirExists, sep, fastqcfiles, modules, err, req, runs,
                   atEntry, prevOut>>
    /\ UNCHANGED <<parseVars, stubVars>>

\* lines 89-95 for one module: _process_mod returns
ProcessMod ==
    /\ pc = "mods"
    /\ LET module == req[mi]
           out == OutPath(module, Suffix(sep))
           mode == ModeFor(files, out)
       IN  /\ ProcessModError(modules, qc, module) = "none"
           /\ LET data == Annotated(qc, module, fastqcfiles[fi])
              IN  /\ qc' = [qc EXCEPT !.modules[module].data = data]
                  /\ files' = WriteFile(files, out, mode,
                                        Written(module, data, mode))
    /\ IF mi < Len(req)
       THEN mi' = mi + 1 /\ UNCHANGED <<fi, pc>>
       ELSE mi' = 1 /\ fi' = fi + 1 /\ pc' = "files"
    /\ UNCHANGED <<tree, dirExists, sep, fastqcfiles, modules, err, req, runs,
                   parses, atEntry, prevOut>>
    /\ UNCHANGED <<parseVars, stubVars>>

\* _process_mod raises and the output files of the requested modules are
\* taken back
ProcessModRollsBack ==
    /\ pc = "mods"
    /\ ProcessModError(modules, qc, req[mi]) # "none"
    /\ err' = ProcessModError(modules, qc, req[mi])
    /\ pc' = "error"
    /\ files' = [o \in DOMAIN files |->
                    IF \E k \in 1..Len(req) : o = OutPath(req[k], Suffix(sep))
                    THEN NoFile ELSE files[o]]
    /\ UNCHANGED <<tree, dirExists, sep, fastqcfiles, modules, req, mi,
                   fi, qc, runs, parses, atEntry, prevOut>>
    /\ UNCHANGED <<parseVars, stubVars>>

\* lines 89-95 for one module: _process_mod raises
ProcessModRaises ==
    /\ pc = "mods"
    /\ ProcessModError(modules, qc, req[mi]) # "none"
    /\ err' = ProcessModError(modules, qc, req[mi])
    /\ pc' = "error"
    /\ UNCHANGED <<tree, dirExists, files, sep, fastqcfiles, modules, req, mi,
                   fi, qc, runs, parses, atEntry, prevOut>>
    /\ UNCHANGED <<parseVars, stubVars>>

\* line 96
Return ==
    /\ pc = "files"
    /\ fi > Len(fastqcfiles)
    /\ pc' = "done"
    /\ prevOut' = IF runs = 1 THEN files ELSE prevOut
    /\ UNCHANGED <<tree, dirExists, files, sep, fastqcfiles, modules, err, req,
                   mi, fi, qc, runs, parses, atEntry>>
    /\ UNCHANGED <<parseVars, stubVars>>

Next ==
    \/ Construct
    \/ ConstructRaises
    \/ Process
    \/ ProcessAgain
    \/ RemoveStep
    \/ NextFile
    \/ ProcessMod
    \/ ProcessModRaises
    \/ Return

Spec == Init /\ [][Next]_vars

-----------------------------------------------------------------------------
(* SpecParse: _process_fastqc_report, one line of the file per step.       *)

\* the lines the files of SpecParse are made of
LineAlphabet ==
    { Line("open", <<"A", "pass">>),
      Line("open", <<BasicStatistics, "pass">>),
      Line("hash", <<"c1", "c2">>),
      Line("hash", <<"d1", "d2">>),
      Line("end", <<>>),
      Line("data", <<"x", "y">>),
      Line("data", <<"z", "w", "">>),
      Line("data", <<"">>),
      Line("endx", <<">>END_MODULE_X">>) }

InitParse ==
    /\ p_input \in UNION { [1..n -> LineAlphabet] : n \in 0..MaxLines }
    /\ p_pos = 1
    /\ p_st = ParseStart
    /\ p_src = <<>>
    /\ p_from = <<>>
    /\ CollIdle
    /\ StubIdle

\* the loop of line 158 is at a line of mark m
AtLine(m) ==
    /\ p_pos <= Len(p_input)
    /\ p_st.err = "none"
    /\ p_input[p_pos].mark \in m

\* one turn of the loop; the history follows what the turn did to the
\* buffer and to self.modules
ReadLine ==
    /\ p_st' = ParseLine(p_st, p_input[p_pos])
    /\ p_pos' = p_pos + 1
    /\ p_src' = IF p_st'.lines = <<>> THEN <<>>
                ELSE IF Len(p_st'.lines) = Len(p_st.lines) + 1
                THEN Append(p_src, p_pos)
                ELSE p_src
    /\ p_from' = IF p_st'.modules # p_st.modules
                 THEN (p_st'.module :> [rows |-> p_src, end |-> p_pos]) @@ p_from
                 ELSE p_from
    /\ p_input' = p_input
    /\ UNCHANGED <<collVars, stubVars>>

\* lines 160-162
ReadOpen ==
    /\ AtLine({"open"})
    /\ ReadLine

\* lines 163-165
ReadHash ==
    /\ AtLine({"hash"})
    /\ ReadLine

\* lines 166-169
ReadEnd ==
    /\ AtLine({"end"})
    /\ ReadLine

\* lines 170-171
ReadOther ==
    /\ AtLine({"data", "endx"})
    /\ ReadLine

NextParse ==
    \/ ReadOpen
    \/ ReadHash
    \/ ReadEnd
    \/ ReadOther

SpecParse == InitParse /\ [][NextParse]_vars

-----------------------------------------------------------------------------
(* SpecStub: the filestub of _process_basic_stats over bounded file names. *)

InitStub ==
    /\ s_filename \in Filenames
    /\ s_filestub = <<>>
    /\ s_pc = "start"
    /\ CollIdle
    /\ ParseIdle

\* line 180
ProcessBasicStats ==
    /\ s_pc = "start"
    /\ s_filestub' = Filestub(s_filename)
    /\ s_pc' = "done"
    /\ s_filename' = s_filename
    /\ UNCHANGED <<collVars, parseVars>>

NextStub == ProcessBasicStats

SpecStub == InitStub /\ [][NextStub]_vars

-----------------------------------------------------------------------------
(* What the claims speak of.                                               *)

\* the output file of module m in this run
OutOf(m) == files[OutPath(m, Suffix(sep))]

\* process() has removed the old files of the requested modules and has not
\* returned or raised before that
Collating == pc \in {"files", "mods", "done"}

\* the report files of the tree, and their paths
ReportFiles == {e \in DOMAIN tree : e.name = FastqcFilename}

ReportPaths == { PathJoin(e.root, e.name) : e \in ReportFiles }

\* the reports at the paths of a list, in its order
RECURSIVE ReportsOf(_, _)
ReportsOf(t, paths) ==
    IF paths = <<>> THEN <<>>
    ELSE <<ReportOf(t, Head(paths))>> \o ReportsOf(t, Tail(paths))

RECURSIVE SumTo(_, _)
SumTo(F(_), n) == IF n = 0 THEN 0 ELSE F(n) + SumTo(F, n - 1)

Occurrences(x, s) == Cardinality({i \in 1..Len(s) : s[i] = x})

NoDuplicates(s) == \A i, j \in 1..Len(s) : s[i] = s[j] => i = j

\* the number of records module m has in a report: one for Basic Statistics,
\* the rows of its table otherwise
Records(m, report) ==
    IF m = BasicStatistics THEN 1 ELSE Len(report.modules[m].data.rows)

LastTwo(line) == SubSeq(line, Len(line) - 1, Len(line))

IsHeader(line) == Len(line) >= 2 /\ LastTwo(line) = <<"Filestub", "Filepath">>

\* a module is open at line i of the input: a >> line came before it with no
\* >>END_MODULE in between
ModuleOpenAt(input, i) ==
    \E o \in 1..(i - 1) :
        /\ input[o].mark = "open"
        /\ \A j \in (o + 1)..(i - 1) : input[j].mark # "end"

\* the >> line of the module that the >>END_MODULE at line e closes
OpeningOf(input, e) ==
    CHOOSE o \in 1..(e - 1) :
        /\ input[o].mark = "open"
        /\ \A j \in (o + 1)..(e - 1) : input[j].mark # "open"

\* the indices of the data lines between lines o and e, in order
DataBetween(input, o, e) ==
    SelectSeq([k \in 1..(e - o - 1) |-> o + k],
              LAMBDA j : input[j].mark \in {"data", "endx"})

HasDotFastq(s) == \E k \in 1..Len(s) : MatchesAt(s, k)

-----------------------------------------------------------------------------
(* The claims.                                                             *)

\* C1: when process() has completed, the output file of every requested
\* module starts with the header row (the columns of the module in the first
\* report, then Filestub and Filepath) and no later line of it is a header.
C1_HeaderOnceAtTop ==
    pc = "done" =>
        \A k \in 1..Len(req) :
            LET m == req[k]
                out == OutOf(m)
                first == ReportOf(tree, fastqcfiles[1]).modules[m].data
            IN  /\ out.exists
                /\ Len(out.lines) >= 1
                /\ out.lines[1] = first.columns \o <<"Filestub", "Filepath">>
                /\ \A i \in 2..Len(out.lines) : ~IsHeader(out.lines[i])

\* C1's case: two reports collated for Basic Statistics and for a table
C1_Witness ==
    /\ pc = "done"
    /\ Len(fastqcfiles) = 2
    /\ req = <<BasicStatistics, GCContent>>
    /\ Len(OutOf(GCContent).lines) > 2

\* C2 as stated: when process() has completed, every requested module's
\* output file holds, after the header, as many lines as there are report
\* files (each module being requested once).
C2_OneLinePerReport ==
    (pc = "done" /\ NoDuplicates(req)) =>
        \A k \in 1..Len(req) :
            Len(OutOf(req[k]).lines) - 1 = Len(fastqcfiles)

\* C2 amended: when process() has completed, the lines after the header are
\* the records of the module over all report files: one per report for
\* Basic Statistics, the rows of the module's table in each report otherwise,
\* each written as often as the module is named in the request.
C2_LinesAreAllRecords ==
    pc = "done" =>
        LET reports == ReportsOf(tree, fastqcfiles)
        IN  \A k \in 1..Len(req) :
                LET m == req[k]
                    RecordsAt(i) == Records(m, reports[i])
                IN  Len(OutOf(m).lines) - 1 =
                        Occurrences(m, req) * SumTo(RecordsAt, Len(fastqcfiles))

\* C2's case: a table of two rows in one report and of none in another
C2_Witness ==
    /\ pc = "done"
    /\ Len(fastqcfiles) = 2
    /\ GCContent \in {req[k] : k \in 1..Len(req)}
    /\ Records(GCContent, ReportOf(tree, fastqcfiles[1])) = 2
    /\ Records(GCContent, ReportOf(tree, fastqcfiles[2])) = 0

\* C3: once the loop of lines 80-85 is over and nothing is written yet, no
\* requested module has an output file; and when process() has completed a
\* second time with the same modules, every requested module's output file
\* is what the first run left.
C3_SecondRunSameOutput ==
    /\ (pc = "files" /\ fi = 1 /\ parses = 0) =>
           \A k \in 1..Len(req) : ~OutOf(req[k]).exists
    /\ (pc = "done" /\ runs >= 2) =>
           \A k \in 1..Len(req) :
               OutOf(req[k]) = prevOut[OutPath(req[k], Suffix(sep))]

\* C3's case: a second run over two reports and two modules has completed
C3_Witness ==
    /\ pc = "done"
    /\ runs = 2
    /\ Len(fastqcfiles) = 2
    /\ Len(req) = 2
    /\ req[1] # req[2]
    /\ Len(OutOf(req[1]).lines) > 2

\* C4 as stated: when process() raises "Module not found." the output
\* directory is as it was when process() was called: not created, no file
\* of it removed, nothing written.
C4_UnknownModuleTouchesNothing ==
    err = "KeyError: Module not found." =>
        /\ dirExists = atEntry.dir
        /\ files = atEntry.files

\* C5: self.fastqcfiles holds the report files of the tree in ascending
\* order of their paths, and in the output file of every requested module
\* the paths of the records never descend.
C5_RecordsInPathOrder ==
    pc # "new" =>
        /\ {fastqcfiles[i] : i \in 1..Len(fastqcfiles)} = ReportPaths
        /\ \A i, j \in 1..Len(fastqcfiles) :
               i < j => PathLess(fastqcfiles[i], fastqcfiles[j])
        /\ Collating =>
               \A k \in 1..Len(req) :
                   LET lines == OutOf(req[k]).lines
                   IN  \A i, j \in 2..Len(lines) :
                           i < j => \/ lines[i][Len(lines[i])] = lines[j][Len(lines[j])]
                                    \/ PathLess(lines[i][Len(lines[i])],
                                                lines[j][Len(lines[j])])

\* C5's case: os.walk lists r/a before r/a/b, the sorted order is the other
\* way round, and both reports have records in an output file
C5_Witness ==
    /\ pc = "done"
    /\ fastqcfiles = <<"r/a/b/fastqc_data.txt", "r/a/fastqc_data.txt">>
    /\ \E k \in 1..Len(req) :
           LET lines == OutOf(req[k]).lines
           IN  /\ Len(lines) >= 3
               /\ lines[2][Len(lines[2])] # lines[Len(lines)][Len(lines[Len(lines)])]

\* C6: in the output file of every requested module the header ends with
\* Filestub and Filepath, and every record ends with the stub and the path
\* of a report file whose module holds the rest of the record.
C6_RecordsCarryTheirReport ==
    Collating =>
        LET reports == ReportsOf(tree, fastqcfiles)
        IN  \A k \in 1..Len(req) :
            LET m == req[k]
                lines == OutOf(m).lines
            IN  OutOf(m).exists =>
                    /\ IsHeader(lines[1])
                    /\ \A i \in 2..Len(lines) :
                           \E x \in 1..Len(fastqcfiles) :
                               LET report == reports[x]
                                   data == report.modules[m].data
                               IN  /\ m \in DOMAIN report.modules
                                   /\ Len(lines[i]) >= 2
                                   /\ LastTwo(lines[i]) =
                                          <<report.filestub, fastqcfiles[x]>>
                                   /\ \E r \in 1..Len(data.rows) :
                                          SubSeq(lines[i], 1, Len(lines[i]) - 2)
                                              = CsvRow(data.rows[r])

\* C6's case: records of two reports with different stubs in one file
C6_Witness ==
    /\ pc = "done"
    /\ Len(fastqcfiles) = 2
    /\ \E k \in 1..Len(req) :
           LET lines == OutOf(req[k]).lines
           IN  /\ Len(lines) >= 3
               /\ LastTwo(lines[2])[1] # LastTwo(lines[Len(lines)])[1]

\* C7: over a tree with no file named fastqc_filename the construction
\* raises (IndexError, at self.fastqcfiles[0]) and the output directory is
\* as it was: not created, no file of it created or changed.
C7_NoReportsRaises ==
    (pc # "new" /\ ReportFiles = {}) =>
        /\ pc = "error"
        /\ err = "IndexError"
        /\ runs = 0
        /\ dirExists = atEntry.dir
        /\ files = atEntry.files

\* C7's case: the construction has run over a tree without reports (it
\* holds another file) and no output directory
C7_Witness ==
    /\ pc = "error"
    /\ ReportFiles = {}
    /\ DOMAIN tree # {}
    /\ ~dirExists

\* C8 as stated: the rows of every stored module are the data lines between
\* the module's >> line and its >>END_MODULE, each split on tab, in order.
C8_RowsAreTheModuleLines ==
    \A m \in DOMAIN p_from :
        LET e == p_from[m].end
            o == OpeningOf(p_input, e)
            idx == DataBetween(p_input, o, e)
            lines == [k \in 1..Len(idx) |-> Strip(p_input[idx[k]])]
        IN  /\ p_from[m].rows = idx
            /\ p_st.modules[m].data
                   = fastqc_module(m, p_st.modules[m].status,
                                   p_st.modules[m].cols, lines).data

\* C9: the filestub is the file name cut before its last .fastq (the
\* characters before it are kept whatever they are, another .fastq
\* included), and the file name itself when .fastq does not occur in it.
C9_FilestubCutsAtFastq ==
    s_pc = "done" =>
        IF ~HasDotFastq(s_filename) THEN s_filestub = s_filename
        ELSE \E k \in 1..Len(s_filename) :
                 /\ MatchesAt(s_filename, k)
                 /\ \A j \in (k + 1)..Len(s_filename) : ~MatchesAt(s_filename, j)
                 /\ s_filestub = SubSeq(s_filename, 1, k - 1)

\* C9's case: .fastq occurs twice in the name and the stub is computed
C9_Witness ==
    /\ s_pc = "done"
    /\ Cardinality({k \in 1..Len(s_filename) : MatchesAt(s_filename, k)}) = 2
    /\ s_filestub # s_filename

\* C10 as stated: a row of a stored module was read while a module was
\* open: never before the first >> line, never between a >>END_MODULE and
\* the next >> line.
C10_RowsReadInsideModule ==
    \A m \in DOMAIN p_from :
        \A k \in 1..Len(p_from[m].rows) :
            ModuleOpenAt(p_input, p_from[m].rows[k])

\* C11 as stated: the columns of every stored table module are the names of
\* the last # line between the module's >> line and its >>END_MODULE; a #
\* line read before the module's >> line is never its columns.
C11_ColumnsFromOwnHeader ==
    \A m \in DOMAIN p_from :
        m # BasicStatistics =>
            LET e == p_from[m].end
                o == OpeningOf(p_input, e)
            IN  \E h \in (o + 1)..(e - 1) :
                    /\ p_input[h].mark = "hash"
                    /\ \A j \in (h + 1)..(e - 1) : p_input[j].mark # "hash"
                    /\ p_st.modules[m].cols = Strip(p_input[h])
                    /\ p_st.modules[m].data.columns = Strip(p_input[h])

-----------------------------------------------------------------------------
(* The output files during a run of process().                             *)

\* process() is past the loop of lines 80-85: in the file loop, returned, or
\* ended by an exception of the file loop
AfterRemoval == runs >= 1 /\ pc \in {"files", "mods", "done", "error"}

\* the header of module m's output file: the columns of the module in the
\* first report, then the two fields of the report
HeaderOf(m, reports) ==
    reports[1].modules[m].data.columns \o <<"Filestub", "Filepath">>

\* the records of module m in a report at `path`: each row of the module,
\* then the stub and the path of the report
RecordsOf(m, report, path) ==
    LET data == report.modules[m].data
    IN  [r \in 1..Len(data.rows) |->
            CsvRow(data.rows[r]) \o <<report.filestub, path>>]

\* s, c times over
RECURSIVE Repeat(_, _)
Repeat(s, c) == IF c = 0 THEN <<>> ELSE s \o Repeat(s, c - 1)

\* the records of module m in the first n reports, report by report
RECURSIVE RecordsUpTo(_, _, _)
RecordsUpTo(m, reports, n) ==
    IF n = 0 THEN <<>>
    ELSE RecordsUpTo(m, reports, n - 1)
         \o RecordsOf(m, reports[n], reports[n].fastqcpath)

\* the number of _process_mod calls that have returned for module m and the
\* i-th report in this run: the file loop is at report fi, the module loop
\* at req[mi]
Calls(m, i) ==
    IF i < fi THEN Occurrences(m, req)
    ELSE IF i = fi THEN Occurrences(m, SubSeq(req, 1, mi - 1))
    ELSE 0

\* the records of module m the calls so far have written, over reports 1..n
RECURSIVE RecordsSoFar(_, _, _)
RecordsSoFar(m, reports, n) ==
    IF n = 0 THEN <<>>
    ELSE RecordsSoFar(m, reports, n - 1)
         \o (IF Calls(m, n) = 0 THEN <<>>
             ELSE Repeat(RecordsOf(m, reports[n], reports[n].fastqcpath),
                         Calls(m, n)))

-----------------------------------------------------------------------------
(* process() ended by an exception at a report that is not the first.      *)

\* the file loop was ended by an exception at a report after the first
AbortedAtLaterFile == pc = "error" /\ runs >= 1 /\ fi >= 2

\* the Filepath field of a record
PathOf(line) == line[Len(line)]

\* module m's output file has a record of every report that has records of
\* the module
HoldsAllReports(m, reports) ==
    /\ OutOf(m).exists
    /\ \A j \in 1..Len(reports) :
           (/\ reports[j].err = "none"
            /\ m \in DOMAIN reports[j].modules
            /\ Records(m, reports[j]) > 0)
           => \E i \in 2..Len(OutOf(m).lines) :
                  PathOf(OutOf(m).lines[i]) = reports[j].fastqcpath

-----------------------------------------------------------------------------
(* self.modules.                                                           *)

\* the construction has returned
Constructed == pc \notin {"new"} /\ ~(pc = "error" /\ runs = 0)

\* the least of the paths of the report files
LeastPath ==
    CHOOSE p \in ReportPaths : \A q \in ReportPaths : p = q \/ PathLess(p, q)

\* module m has no output file written by this run of process(): its file is
\* as it was at the call, or removed
NotWritten(m) ==
    \/ OutOf(m) = atEntry.files[OutPath(m, Suffix(sep))]
    \/ ~OutOf(m).exists

\* C14: from the construction on, self.modules is the module names of the
\* report at the least path, each once.  A run of process() writes no
\* output file for a name outside self.modules; a run that is to collate
\* self.modules (no argument) has written a file with a header for each of
\* its names once the first report is done; and a run whose request names a
\* module outside self.modules (one that only later reports have included)
\* never returns: it ends at the first report with "Module not found.".
C14_ModulesOfFirstReport ==
    Constructed =>
        LET first == ReportOf(tree, LeastPath)
            known == {modules[i] : i \in 1..Len(modules)}
            asked == {req[k] : k \in 1..Len(req)}
        IN  /\ modules = first.order
            /\ known = DOMAIN first.modules
            /\ NoDuplicates(modules)
            /\ runs >= 1 =>
                   /\ \A m \in ModuleNames \ known : NotWritten(m)
                   /\ (AfterRemoval /\ req = modules /\ fi >= 2) =>
                          \A m \in known :
                              /\ OutOf(m).exists
                              /\ IsHeader(OutOf(m).lines[1])
                   /\ ~(asked \subseteq known) =>
                          /\ pc # "done"
                          /\ pc = "error" =>
                                 /\ err = "KeyError: Module not found."
                                 /\ fi = 1
                                 /\ req[mi] \notin known

\* C14's case: the first report in sorted order is not the first of the
\* walk and has no Kmer Content, a later report has it, and process() was
\* asked for Kmer Content and has raised
C14_Witness ==
    /\ pc = "error"
    /\ runs = 1
    /\ req # <<>>
    /\ fastqcfiles[1] = "r/a/b/fastqc_data.txt"
    /\ ~InSeq(KmerContent, modules)
    /\ \E j \in 2..Len(fastqcfiles) :
           KmerContent \in DOMAIN ReportOf(tree, fastqcfiles[j]).modules
    /\ req[mi] = KmerContent
    /\ err = "KeyError: Module not found."

-----------------------------------------------------------------------------
(* The parses of a run of process().                                       *)

\* C15: in a run of process() fastqc_report() is called once for each
\* report the file loop has come to, whatever the number of requested
\* modules: fi - 1 times when the loop is about to read report fi, fi times
\* while the modules of report fi are written (from the one object qc of
\* that report) or when the run was ended by an exception there, and as
\* often as there are report files when process() has returned.
C15_OneParsePerFile ==
    AfterRemoval =>
        /\ pc = "files" => parses = fi - 1
        /\ pc = "mods" =>
               /\ parses = fi
               /\ qc.err = "none"
               /\ qc.fastqcpath = fastqcfiles[fi]
               /\ qc.order = ReportOf(tree, fastqcfiles[fi]).order
        /\ pc = "error" => parses = fi
        /\ pc = "done" => parses = Len(fastqcfiles)

\* C15's case: process() has returned from three reports and two modules
C15_Witness ==
    /\ pc = "done"
    /\ Len(fastqcfiles) = 3
    /\ Len(req) = 2
    /\ req[1] # req[2]
    /\ parses = 3
    /\ Len(OutOf(req[2]).lines) >= 4

-----------------------------------------------------------------------------
(* The output files process() is not asked for.                            *)

\* the output paths of the requested modules in this run
RequestedPaths == { OutPath(req[k], Suffix(sep)) : k \in 1..Len(req) }

\* C16: from the call of process() on, through the removal of old files,
\* the file loop and an exception if one ends the run, every file of the
\* output directory that is not the output file of a requested module is
\* as it was when process() was called.
C16_OtherFilesUntouched ==
    runs >= 1 =>
        \A o \in OutPaths \ RequestedPaths : files[o] = atEntry.files[o]

\* C16's case: the output directory held old files, process() was called
\* for one module of a report that has others, and has written its file
C16_Witness ==
    /\ pc = "done"
    /\ Len(req) = 1
    /\ Len(modules) >= 2
    /\ atEntry.files[OutPath(req[1], Suffix(sep))] = Stale
    /\ OutOf(req[1]).exists
    /\ OutOf(req[1]) # Stale
    /\ \E m \in ModuleNames \ {req[1]} : InSeq(m, modules) /\ OutOf(m) = Stale

====
